---- MODULE Spec2Model ----
(***************************************************************************)
(* OAuth2 access-token freshness policy of n8n-nodes-azure-openai-ms-oauth2 *)
(*                                                                         *)
(* The model follows the latest revision of the two token requests:        *)
(*   chat supplier       getCurrentToken  (unnamed/part_003, lines 48-267)  *)
(*   embeddings supplier getCurrentToken  (unnamed/part_004, lines 12-94)   *)
(* A call runs as an async function: everything between two awaits is one *)
(* atomic step; the awaited collaborators (host credential store, the      *)
(* authenticated HTTP helper, the token endpoint) answer in their own      *)
(* steps, and the host may rewrite the stored token between any two steps. *)
(* Spec runs token requests on their own.  SpecClient runs supplyData and   *)
(* the invocations of the client it hands to the host, for three revisions: *)
(*   "wrapped"  nodes/LmChatAzureOpenAiMsOAuth2/LmChatAzureOpenAiMsOAuth2   *)
(*              .node.ts, whose supplyData wraps invoke/stream/call/generate *)
(*   "chat"     unnamed/part_003, "embed"  unnamed/part_004: no wrappers    *)
(* The wrapped revision has its own getCurrentToken (lines 46-227): grant   *)
(* only, buffer from the process environment.                              *)
(*                                                                         *)
(* Encoding of JavaScript values:                                          *)
(*   - an optional number is an integer, Undef (-1) standing for undefined *)
(*   - a string-or-undefined token is a record [s, parts, payload, exp]:   *)
(*     s is the text (its identity), parts the number of dot-separated     *)
(*     segments, payload what the middle segment decodes to, exp the       *)
(*     payload's exp member; parts = 0 encodes undefined                   *)
(*   - the refresh token is a string, "" standing for undefined            *)
(* FORCE_REFRESH_FOR_TESTING is the constant false (part_003 line 82), so   *)
(* the test-mode block of lines 84-129 never runs and has no action here.   *)
(* Expiry values are positive Unix seconds inside the range of Date, as an *)
(* identity provider issues them, so the toISOString calls of the logging  *)
(* statements cannot raise.                                                *)
(***************************************************************************)
EXTENDS Integers, Sequences, FiniteSets, TLC

VARIABLES
    credentials,   \* host credential store: what getCredentials returns
    nowMs,         \* Date.now()
    hostWrites,    \* number of token rotations the host has written
    pc,            \* per call: position of the async function
    supplier,      \* per call: which getCurrentToken runs ("chat" / "embed")
    oauthData,     \* per call: credentials.oauthTokenData read at the start
    atStart,       \* per call: the host writes that preceded its read, and whether
                   \* a call had by then returned a token of the token endpoint
    refreshed,     \* per call: the access token found by the re-read after the probe
    tokenData,     \* per call: what the token endpoint answered
    result,        \* per call: the value the promise resolved with
    error,         \* per call: the error the promise rejected with
    trace,         \* per call: the observable events so far, in order
    variant,       \* which revision's supplyData built the client
    cpc,           \* position of supplyData / of the client method being invoked
    method,        \* the client method the host invoked
    invocations,   \* number of invocations of the client so far
    apiKey,        \* the client's azureOpenAIApiKey
    keyFrom,       \* the invocation in which apiKey was installed (0: construction)
    ctrace,        \* this invocation: its events so far, in order
    attempts,      \* this invocation: key of every call of the original method
    requests,      \* this invocation: every token request that completed
    outcomes,      \* this invocation: what the original method came back with
    invResult,     \* what the invocation (or supplyData) settled with
    apiScope,      \* the credential's apiScope, as its space-separated scope names
    scope,         \* the credential's hidden scope property, once resolved
    fullScope,     \* the scope parameter of the refresh_token grant, once built
    items,         \* Token Refresh node: the input items of the execution
    xpc,           \* Token Refresh node: position of execute
    probes,        \* Token Refresh node: probe requests issued by the execution
    output,        \* Token Refresh node: what execute resolved with
    xlog,          \* Token Refresh node: the messages logged, in order
    runsMap,       \* tracing: run id -> run details saved by handleLLMStart
    runState,      \* tracing: per run id, which events the handler has received
    addedAt,       \* tracing: per run id, the index addInputData returned
    nextRunIndex,  \* tracing: the host's run index, handed out by addInputData
    outputs,       \* tracing: the calls of addOutputData, in order
    aiEvents,      \* tracing: the calls of logAiEvent, in order
    received       \* tracing: the error objects as handleLLMError received them

callVars == <<pc, supplier, oauthData, atStart, refreshed, tokenData, result, error, trace>>

clientVars == <<variant, cpc, method, invocations, apiKey, keyFrom, ctrace, attempts,
                requests, outcomes, invResult>>

scopeVars == <<apiScope, scope, fullScope>>

refreshVars == <<items, xpc, probes, output, xlog>>

tracingVars == <<runsMap, runState, addedAt, nextRunIndex, outputs, aiEvents, received>>

vars == <<credentials, nowMs, hostWrites, callVars, clientVars, scopeVars, refreshVars,
          tracingVars>>

-----------------------------------------------------------------------------
(* Bounds *)

MaxCalls == 2
MaxHostWrites == 1
MaxInvocations == 2
MaxItems == 3
MaxRuns == 2

CallIds == 1..MaxCalls
RunIds == 1..MaxRuns

-----------------------------------------------------------------------------
(* JavaScript values *)

Undef == -1

\* `!!n` for number | undefined
TruthyNum(n) == n # Undef /\ n # 0

\* `a || b || c` over number | undefined
Or3(a, b, c) == IF TruthyNum(a) THEN a ELSE IF TruthyNum(b) THEN b ELSE c

Tok(s, parts, payload, exp) == [s |-> s, parts |-> parts, payload |-> payload, exp |-> exp]

NoToken == Tok("", 0, "none", Undef)       \* undefined
EmptyToken == Tok("", 1, "none", Undef)    \* ""

\* `!!t` for string | undefined
Truthy(t) == t.s # ""

-----------------------------------------------------------------------------
(* Inputs *)

\* access tokens a bundle may hold at the start
StoredTokens ==
    { NoToken, EmptyToken,
      Tok("A", 1, "none", Undef),          \* opaque, not a JWT
      Tok("J1", 3, "object", 10000),       \* JWT, exp = 10000
      Tok("J2", 3, "object", 20000),       \* JWT, exp = 20000
      Tok("Jnoexp", 3, "object", Undef),   \* JWT without exp
      Tok("Jbad", 3, "invalid", Undef) }   \* middle segment is not JSON

\* token the host writes at its n-th refresh (valid for long)
HostToken(n) == Tok("H", 3, "object", 90000 + n)

\* token the token endpoint hands out
GrantToken == Tok("B", 3, "object", 90000)

ExpiresAtValues == {Undef, 10000, 20000}
OauthExpValues == {Undef, 10000}
ExpiresInValues == {Undef, 3600}
RefreshTokens == {"", "R"}
BufferValues == {Undef, 30, 60, 1800, 5000}
NowValues == {8000000, 9100000, 9500000, 9999500, 10000000}

\* the configured buffer and the clock reading of a run: an out-of-range
\* buffer is paired with the two readings where it decides differently from
\* the default, and once the token has expired the buffer decides nothing, so
\* the unset buffer stands for all there
BufferAndClock ==
    ({Undef, 60, 1800} \X {8000000, 9100000, 9500000, 9999500})
        \cup ({30, 5000} \X {8000000, 9500000})
        \cup ({Undef} \X {10000000})
Suppliers == {"chat", "embed"}
Endpoints == {"", "https://e/"}

\* no answer received (yet)
NoResponse == [raises |-> FALSE, status |-> 0, json |-> FALSE, access_token |-> NoToken]

\* what helpers.request can come back with for the refresh_token grant: it
\* rejects on a non-2xx answer (as on a transport failure) or resolves with a body
GrantOutcomes ==
    { [raises |-> TRUE,  status |-> 400, json |-> TRUE,  access_token |-> NoToken],     \* rejects
      [raises |-> FALSE, status |-> 200, json |-> FALSE, access_token |-> NoToken],     \* malformed body
      [raises |-> FALSE, status |-> 200, json |-> TRUE,  access_token |-> EmptyToken],  \* no usable access_token
      [raises |-> FALSE, status |-> 200, json |-> TRUE,  access_token |-> GrantToken] }

-----------------------------------------------------------------------------
(* Pure functions *)

\* null or the parsed payload; only its exp member is ever used
decodeJWT(token) ==
    IF token.parts # 3 THEN [isNull |-> TRUE, exp |-> Undef]
    ELSE IF token.payload = "object" THEN [isNull |-> FALSE, exp |-> token.exp]
    ELSE [isNull |-> TRUE, exp |-> Undef]

\* decodedToken?.exp
tokenExp(od) == decodeJWT(od.access_token).exp

\* variant: the host-recorded expires_at takes priority over the JWT claim
expiryTime_hostFirst(od) == Or3(od.expires_at, tokenExp(od), od.exp)

\* variant: a bare expires_in is taken for the expiry when nothing else is known
expiryTime_usesExpiresIn(od) ==
    IF TruthyNum(Or3(tokenExp(od), od.expires_at, od.exp))
    THEN Or3(tokenExp(od), od.expires_at, od.exp)
    ELSE od.expires_in

\* chat: tokenExp || oauthData.expires_at || oauthData.exp
expiryTime(od) == Or3(tokenExp(od), od.expires_at, od.exp)

DefaultBufferTime == 900
MinBufferTime == 60
MaxBufferTime == 3600

\* chat: the validated buffer
bufferTime(cred) ==
    LET credentialBufferTime == cred.refreshBeforeExpirySeconds IN
    IF credentialBufferTime # Undef
         /\ credentialBufferTime >= MinBufferTime
         /\ credentialBufferTime <= MaxBufferTime
    THEN credentialBufferTime
    ELSE DefaultBufferTime

\* chat: Math.floor(Date.now() / 1000)
nowSeconds(ms) == ms \div 1000

\* variant: any known expiry counts as past the buffer
chatPastBuffer_always(cred, ms) == TruthyNum(expiryTime(cred.oauthTokenData))

\* chat: now >= expiresAt - bufferTime
chatPastBuffer(cred, ms) ==
    /\ TruthyNum(expiryTime(cred.oauthTokenData))
    /\ nowSeconds(ms) >= expiryTime(cred.oauthTokenData) - bufferTime(cred)

\* chat: isExpired
chatIsExpired(cred, ms) == nowSeconds(ms) >= expiryTime(cred.oauthTokenData)

\* embeddings: credentials.refreshBeforeExpirySeconds ?? 900
embedBufferTime(cred) ==
    IF cred.refreshBeforeExpirySeconds = Undef THEN DefaultBufferTime
    ELSE cred.refreshBeforeExpirySeconds

\* embeddings: timeUntilExpiry = decoded.exp * 1000 - Date.now()
timeUntilExpiry(cred, ms) == tokenExp(cred.oauthTokenData) * 1000 - ms

\* embeddings: decoded?.exp && timeUntilExpiry < bufferMs
embedPastBuffer(cred, ms) ==
    /\ TruthyNum(tokenExp(cred.oauthTokenData))
    /\ timeUntilExpiry(cred, ms) < embedBufferTime(cred) * 1000

\* embeddings: timeUntilExpiry <= 0
embedIsExpired(cred, ms) == timeUntilExpiry(cred, ms) <= 0

-----------------------------------------------------------------------------
(* State machine *)

Bundles ==
    [ access_token : StoredTokens,
      refresh_token : RefreshTokens,
      expires_at : ExpiresAtValues,
      exp : OauthExpValues,
      expires_in : ExpiresInValues ]

\* an error object: its name, the two places a status is looked for, and the
\* attempt of the original method that raised it (0: raised by a token request)
Err(name, status, responseStatus, attempt) ==
    [name |-> name, status |-> status, responseStatus |-> responseStatus, attempt |-> attempt]

NoError == Err("none", Undef, Undef, 0)

\* nothing settled (yet)
NoResult == [kind |-> "none", attempt |-> 0, error |-> NoError]

NoBundle ==
    [access_token |-> NoToken, refresh_token |-> "", expires_at |-> Undef, exp |-> Undef,
     expires_in |-> Undef]

\* no supplyData has run
NoClient ==
    /\ variant = "none"
    /\ cpc = "none"
    /\ method = "none"
    /\ invocations = 0
    /\ apiKey = NoToken
    /\ keyFrom = 0
    /\ ctrace = << >>
    /\ attempts = << >>
    /\ requests = << >>
    /\ outcomes = << >>
    /\ invResult = NoResult

\* no scope string is under consideration
NoScopes ==
    /\ apiScope = << >>
    /\ scope = << >>
    /\ fullScope = << >>

\* no Token Refresh node is executing
NoRefresh ==
    /\ items = << >>
    /\ xpc = "none"
    /\ probes = 0
    /\ output = << >>
    /\ xlog = << >>

\* runsMap[runId] of a run id that is not a key of the map
NoRun == [index |-> Undef, messages |-> Undef]

\* no tracing handler is attached
NoTracing ==
    /\ runsMap = [r \in RunIds |-> NoRun]
    /\ runState = [r \in RunIds |-> "none"]
    /\ addedAt = [r \in RunIds |-> Undef]
    /\ nextRunIndex = 0
    /\ outputs = << >>
    /\ aiEvents = << >>
    /\ received = << >>

\* oauthTokenData.exp is read only when neither the JWT claim nor expires_at is
\* set (the last operand of the || chain): it comes with the opaque token;
\* expires_in is read only when the chain yields nothing (chat line 133);
\* other bundles leave them out
Init ==
    /\ credentials \in [ oauthTokenData : Bundles,
                         refreshBeforeExpirySeconds : BufferValues,
                         endpoint : Endpoints \ {""} ]
    /\ credentials.oauthTokenData.exp # Undef
         => /\ credentials.oauthTokenData.access_token.s = "A"
            /\ credentials.oauthTokenData.expires_at = Undef
    /\ credentials.oauthTokenData.expires_in # Undef
         => /\ tokenExp(credentials.oauthTokenData) = Undef
            /\ credentials.oauthTokenData.expires_at = Undef
            /\ credentials.oauthTokenData.exp = Undef
    /\ nowMs \in NowValues
    /\ <<credentials.refreshBeforeExpirySeconds, nowMs>> \in BufferAndClock
    /\ hostWrites = 0
    /\ pc = [c \in CallIds |-> "idle"]
    /\ supplier = [c \in CallIds |-> "none"]
    /\ oauthData = [c \in CallIds |-> NoBundle]
    /\ atStart = [c \in CallIds |-> [writes |-> 0, afterGrant |-> FALSE]]
    /\ refreshed = [c \in CallIds |-> NoToken]
    /\ tokenData = [c \in CallIds |-> NoResponse]
    /\ result = [c \in CallIds |-> NoToken]
    /\ error = [c \in CallIds |-> "none"]
    /\ trace = [c \in CallIds |-> << >>]
    /\ NoClient
    /\ NoScopes
    /\ NoRefresh
    /\ NoTracing

\* `return tok` after the events evs
Return(c, tok, evs) ==
    /\ pc' = [pc EXCEPT ![c] = "returned"]
    /\ result' = [result EXCEPT ![c] = tok]
    /\ trace' = [trace EXCEPT ![c] = trace[c] \o evs \o <<"return">>]
    /\ UNCHANGED error

\* `throw new NodeOperationError(...)` after the events evs
Throw(c, err, evs) ==
    /\ pc' = [pc EXCEPT ![c] = "raised"]
    /\ error' = [error EXCEPT ![c] = err]
    /\ trace' = [trace EXCEPT ![c] = trace[c] \o evs \o <<"throw">>]
    /\ UNCHANGED result

\* suspend at an await after the events evs
Await(c, at, evs) ==
    /\ pc' = [pc EXCEPT ![c] = at]
    /\ trace' = [trace EXCEPT ![c] = trace[c] \o evs]
    /\ UNCHANGED <<result, error>>

\* variant: the request is sent without looking for a refresh token
DirectGrant_noCheck(c, od, evs) == Await(c, "grant", evs \o <<"grant", "token_request">>)

\* variant: without a refresh token the store's present token is handed out
DirectGrant_readsStore(c, od, evs) ==
    IF ~(od.refresh_token # "")
    THEN Return(c, credentials.oauthTokenData.access_token, evs \o <<"grant">>)
    ELSE Await(c, "grant", evs \o <<"grant", "token_request">>)

\* chat lines 206-245: the direct refresh_token grant up to its await
DirectGrant(c, od, evs) ==
    IF ~(od.refresh_token # "")
    THEN Return(c, od.access_token, evs \o <<"grant">>)
    ELSE Await(c, "grant", evs \o <<"grant", "token_request">>)

\* chat lines 133-135 and 262-264: the warnings logged when no expiry is known
NoExpiryEvents(od) ==
    IF TruthyNum(od.expires_in)
    THEN <<"read", "expires_in_only", "cannot_evaluate">>
    ELSE <<"read", "cannot_evaluate">>

\* variant: the access token is looked for only after the expiry evaluation
ChatRead_checksLate(c, cred) ==
    LET od == cred.oauthTokenData IN
    IF ~TruthyNum(expiryTime(od))
    THEN IF ~Truthy(od.access_token)
         THEN Throw(c, "MissingToken", NoExpiryEvents(od))
         ELSE Return(c, od.access_token, NoExpiryEvents(od))
    ELSE IF ~chatPastBuffer(cred, nowMs)
    THEN IF ~Truthy(od.access_token)
         THEN Throw(c, "MissingToken", <<"read", "evaluate">>)
         ELSE Return(c, od.access_token, <<"read", "evaluate">>)
    ELSE IF chatIsExpired(cred, nowMs)
    THEN Await(c, "probe", <<"read", "evaluate", "refresh_due", "probe">>)
    ELSE DirectGrant(c, od, <<"read", "evaluate", "refresh_due">>)

\* variant: every due refresh goes straight to the refresh_token grant
ChatRead_grantOnly(c, cred) ==
    LET od == cred.oauthTokenData IN
    IF ~Truthy(od.access_token)
    THEN Throw(c, "MissingToken", <<"read">>)
    ELSE IF ~TruthyNum(expiryTime(od))
    THEN Return(c, od.access_token, NoExpiryEvents(od))
    ELSE IF ~chatPastBuffer(cred, nowMs)
    THEN Return(c, od.access_token, <<"read", "evaluate">>)
    ELSE DirectGrant(c, od, <<"read", "evaluate", "refresh_due">>)

\* variant: every due refresh starts with the probe
ChatRead_probeFirst(c, cred) ==
    LET od == cred.oauthTokenData IN
    IF ~Truthy(od.access_token)
    THEN Throw(c, "MissingToken", <<"read">>)
    ELSE IF ~TruthyNum(expiryTime(od))
    THEN Return(c, od.access_token, NoExpiryEvents(od))
    ELSE IF ~chatPastBuffer(cred, nowMs)
    THEN Return(c, od.access_token, <<"read", "evaluate">>)
    ELSE Await(c, "probe", <<"read", "evaluate", "refresh_due", "probe">>)

\* variant: inside the buffer window a call without refresh token tries the probe
ChatRead_probesInWindow(c, cred) ==
    LET od == cred.oauthTokenData IN
    IF ~Truthy(od.access_token)
    THEN Throw(c, "MissingToken", <<"read">>)
    ELSE IF ~TruthyNum(expiryTime(od))
    THEN Return(c, od.access_token, NoExpiryEvents(od))
    ELSE IF ~chatPastBuffer(cred, nowMs)
    THEN Return(c, od.access_token, <<"read", "evaluate">>)
    ELSE IF chatIsExpired(cred, nowMs) \/ od.refresh_token = ""
    THEN Await(c, "probe", <<"read", "evaluate", "refresh_due", "probe">>)
    ELSE DirectGrant(c, od, <<"read", "evaluate", "refresh_due">>)

\* variant: a token that does not decode as a JWT is rejected
ChatRead_requiresJWT(c, cred) ==
    LET od == cred.oauthTokenData IN
    IF ~Truthy(od.access_token)
    THEN Throw(c, "MissingToken", <<"read">>)
    ELSE IF decodeJWT(od.access_token).isNull
    THEN Throw(c, "InvalidToken", <<"read">>)
    ELSE IF ~TruthyNum(expiryTime(od))
    THEN Return(c, od.access_token, NoExpiryEvents(od))
    ELSE IF ~chatPastBuffer(cred, nowMs)
    THEN Return(c, od.access_token, <<"read", "evaluate">>)
    ELSE IF chatIsExpired(cred, nowMs)
    THEN Await(c, "probe", <<"read", "evaluate", "refresh_due", "probe">>)
    ELSE DirectGrant(c, od, <<"read", "evaluate", "refresh_due">>)

\* chat lines 52-184: initial read, expiry evaluation, first strategy
ChatRead(c, cred) ==
    LET od == cred.oauthTokenData IN
    IF ~Truthy(od.access_token)
    THEN Throw(c, "MissingToken", <<"read">>)
    ELSE IF ~TruthyNum(expiryTime(od))
    THEN Return(c, od.access_token, NoExpiryEvents(od))
    ELSE IF ~chatPastBuffer(cred, nowMs)
    THEN Return(c, od.access_token, <<"read", "evaluate">>)
    ELSE IF chatIsExpired(cred, nowMs)
    THEN Await(c, "probe", <<"read", "evaluate", "refresh_due", "probe">>)
    ELSE DirectGrant(c, od, <<"read", "evaluate", "refresh_due">>)

\* embeddings lines 16-77: initial read, expiry evaluation, probe
EmbedRead(c, cred) ==
    LET od == cred.oauthTokenData IN
    IF ~Truthy(od.access_token)
    THEN Throw(c, "MissingToken", <<"read">>)
    ELSE IF ~TruthyNum(tokenExp(od))
    THEN Return(c, od.access_token, <<"read">>)
    ELSE IF ~embedPastBuffer(cred, nowMs)
    THEN Return(c, od.access_token, <<"read", "evaluate">>)
    ELSE IF embedIsExpired(cred, nowMs)
    THEN Await(c, "probe", <<"read", "evaluate", "refresh_due", "probe">>)
    ELSE Return(c, od.access_token, <<"read", "evaluate", "refresh_due">>)

\* variant: the bundle read by an earlier call is kept and handed out again
getCredentials_cached(c) ==
    IF \E d \in CallIds : d < c /\ pc[d] # "idle"
    THEN [credentials EXCEPT !.oauthTokenData = oauthData[1]]
    ELSE credentials

\* context.getCredentials('azureOpenAiMsOAuth2Api'): the store's content now
getCredentials(c) == credentials

\* process.env.AZURE_OPENAI_TOKEN_REFRESH_BUFFER_SECONDS after parseInt; not set
EnvBufferSeconds == Undef

\* wrapped revision lines 143-155: the validated buffer of the environment
envBufferTime ==
    IF EnvBufferSeconds # Undef
         /\ EnvBufferSeconds >= MinBufferTime
         /\ EnvBufferSeconds <= MaxBufferTime
    THEN EnvBufferSeconds
    ELSE DefaultBufferTime

\* wrapped revision lines 51-162: initial read, expiry evaluation, direct grant
WrappedRead(c, cred) ==
    LET od == cred.oauthTokenData IN
    IF ~Truthy(od.access_token)
    THEN Throw(c, "MissingToken", <<"read">>)
    ELSE IF ~TruthyNum(expiryTime(od))
    THEN Return(c, od.access_token, NoExpiryEvents(od))
    ELSE IF ~(nowSeconds(nowMs) >= expiryTime(od) - envBufferTime)
    THEN Return(c, od.access_token, <<"read", "evaluate">>)
    ELSE DirectGrant(c, od, <<"read", "evaluate", "refresh_due">>)

\* the getCurrentToken of revision sup reads the store and runs to its next await
StartRequest(c, sup) ==
    LET cred == getCredentials(c) IN
    /\ supplier' = [supplier EXCEPT ![c] = sup]
    /\ oauthData' = [oauthData EXCEPT ![c] = cred.oauthTokenData]
    /\ atStart' = [atStart EXCEPT ![c] =
                      [writes |-> hostWrites,
                       afterGrant |-> \E d \in CallIds :
                                         /\ pc[d] = "returned"
                                         /\ Truthy(tokenData[d].access_token)
                                         /\ result[d] = tokenData[d].access_token]]
    /\ CASE sup = "chat" -> ChatRead(c, cred)
         [] sup = "embed" -> EmbedRead(c, cred)
         [] OTHER -> WrappedRead(c, cred)

\* a token request starts: await context.getCredentials(...) and run to the next await
getCurrentToken(c) ==
    /\ pc[c] = "idle"
    /\ \A d \in CallIds : d < c => pc[d] # "idle"
    /\ \E sup \in Suppliers : StartRequest(c, sup)
    /\ UNCHANGED <<credentials, nowMs, scopeVars, refreshVars, tracingVars, hostWrites, refreshed, tokenData, clientVars>>

\* variant: the error of the probe is not caught
ProbeCatch_rethrows(c, evs) == Throw(c, "ProbeFailed", evs)

\* variant: a probe that raised is issued a second time
ProbeCatch_probesAgain(c, evs) ==
    IF Len(SelectSeq(trace[c], LAMBDA e : e = "probe")) < 2
    THEN Await(c, "probe", evs \o <<"probe">>)
    ELSE IF supplier[c] = "chat"
    THEN DirectGrant(c, oauthData[c], evs)
    ELSE Return(c, oauthData[c].access_token, evs)

\* the probe raised: chat lines 198-213, embeddings lines 86-93
ProbeCatch(c, evs) ==
    IF supplier[c] = "chat"
    THEN DirectGrant(c, oauthData[c], evs)
    ELSE Return(c, oauthData[c].access_token, evs)

\* the authenticated probe request settles (chat lines 172-203, embeddings 67-88)
ProbeResponds(c) ==
    /\ pc[c] = "probe"
    /\ \E raises \in BOOLEAN :
        IF raises
        THEN ProbeCatch(c, <<"probe_raised">>)
        ELSE Await(c, "reread", <<"probe_ok">>)
    /\ UNCHANGED <<credentials, nowMs, scopeVars, refreshVars, tracingVars, hostWrites, supplier, oauthData, atStart, refreshed,
                   tokenData, clientVars>>

\* variant: an unchanged token after the probe continues with the grant
AfterReread_fallsThrough(c, refreshedToken) ==
    IF Truthy(refreshedToken) /\ refreshedToken # oauthData[c].access_token
    THEN Return(c, refreshedToken, <<"reread_ok">>)
    ELSE IF supplier[c] = "chat"
    THEN DirectGrant(c, oauthData[c], <<"reread_ok">>)
    ELSE Return(c, oauthData[c].access_token, <<"reread_ok">>)

\* variant: the token read at the start is returned whatever the re-read found
AfterReread_keepsStart(c, refreshedToken) ==
    Return(c, oauthData[c].access_token, <<"reread_ok">>)

\* variant: an unchanged token after the probe is raised as an error
AfterReread_raisesUnchanged(c, refreshedToken) ==
    IF Truthy(refreshedToken) /\ refreshedToken # oauthData[c].access_token
    THEN Return(c, refreshedToken, <<"reread_ok">>)
    ELSE Throw(c, "TokenUnchanged", <<"reread_ok">>)

\* chat lines 190-196, embeddings lines 82-93: compare the re-read token
AfterReread(c, refreshedToken) ==
    IF Truthy(refreshedToken) /\ refreshedToken # oauthData[c].access_token
    THEN Return(c, refreshedToken, <<"reread_ok">>)
    ELSE Return(c, oauthData[c].access_token, <<"reread_ok">>)

\* the re-read of the bundle after the probe settles (chat lines 187-203, embeddings 79-88)
RereadResponds(c) ==
    /\ pc[c] = "reread"
    /\ \E raises \in BOOLEAN :
        IF raises
        THEN /\ ProbeCatch(c, <<"reread_raised">>)
             /\ UNCHANGED refreshed
        ELSE /\ refreshed' = [refreshed EXCEPT ![c] = credentials.oauthTokenData.access_token]
             /\ AfterReread(c, credentials.oauthTokenData.access_token)
    /\ UNCHANGED <<credentials, nowMs, scopeVars, refreshVars, tracingVars, hostWrites, supplier, oauthData, atStart, tokenData,
                   clientVars>>

\* helpers.request rejects on a transport failure and on a non-2xx status
RequestThrows(o) == o.raises \/ o.status < 200 \/ o.status > 299

\* chat lines 231-252: JSON.parse(response) and tokenData.access_token
GrantYields(o) ==
    IF RequestThrows(o) \/ ~o.json THEN NoToken
    ELSE o.access_token

\* variant: whatever the answer yielded is returned, without falling back
AfterGrant_noFallback(c, o) == Return(c, GrantYields(o), <<"token_response">>)

\* variant: the answer is ignored and the token read at the start is kept
AfterGrant_keepsOld(c, o) == Return(c, oauthData[c].access_token, <<"token_response">>)

\* variant: a grant that yields no token is not caught
AfterGrant_rethrows(c, o) ==
    IF Truthy(GrantYields(o))
    THEN Return(c, GrantYields(o), <<"token_response">>)
    ELSE Throw(c, "GrantFailed", <<"token_response">>)

\* variant: a token some other call was granted is handed out when this
\* call's own request yields none
AfterGrant_sharesAnswer(c, o) ==
    IF Truthy(GrantYields(o))
    THEN Return(c, GrantYields(o), <<"token_response">>)
    ELSE IF \E d \in CallIds : Truthy(GrantYields(tokenData[d]))
    THEN Return(c, GrantToken, <<"token_response">>)
    ELSE Return(c, oauthData[c].access_token, <<"token_response">>)

\* chat lines 249-266: use the granted token or fall back to the one read at the start
AfterGrant(c, o) ==
    IF Truthy(GrantYields(o))
    THEN Return(c, GrantYields(o), <<"token_response">>)
    ELSE Return(c, oauthData[c].access_token, <<"token_response">>)

\* variant: a granted token is written back to the host store
GrantResponds_writesBack(c) ==
    /\ pc[c] = "grant"
    /\ \E o \in GrantOutcomes :
        /\ tokenData' = [tokenData EXCEPT ![c] = o]
        /\ AfterGrant(c, o)
        /\ credentials' =
             IF Truthy(GrantYields(o))
             THEN [credentials EXCEPT !.oauthTokenData.access_token = GrantYields(o)]
             ELSE credentials
    /\ UNCHANGED <<nowMs, scopeVars, refreshVars, tracingVars, hostWrites, supplier, oauthData, atStart, refreshed, clientVars>>

\* the token endpoint's answer settles (chat lines 231-266)
GrantResponds(c) ==
    /\ pc[c] = "grant"
    /\ \E o \in GrantOutcomes :
        /\ tokenData' = [tokenData EXCEPT ![c] = o]
        /\ AfterGrant(c, o)
    /\ UNCHANGED <<credentials, nowMs, scopeVars, refreshVars, tracingVars, hostWrites, supplier, oauthData, atStart, refreshed,
                   clientVars>>

\* the host's own OAuth2 layer refreshes the stored access token (a write that
\* no token request can observe any more is left out)
HostRefresh ==
    /\ hostWrites < MaxHostWrites
    /\ \E c \in CallIds : pc[c] \notin {"returned", "raised"}
    /\ Truthy(credentials.oauthTokenData.access_token)
    /\ credentials' = [credentials EXCEPT
                          !.oauthTokenData.access_token = HostToken(hostWrites + 1)]
    /\ hostWrites' = hostWrites + 1
    /\ UNCHANGED <<nowMs, scopeVars, refreshVars, tracingVars, callVars, clientVars>>

Next ==
    \/ \E c \in CallIds : getCurrentToken(c)
    \/ \E c \in CallIds : ProbeResponds(c)
    \/ \E c \in CallIds : RereadResponds(c)
    \/ \E c \in CallIds : GrantResponds(c)
    \/ HostRefresh

Spec == Init /\ [][Next]_vars

\* every awaited collaborator call eventually resolves or rejects: the probe
\* request (chat line 172), the re-read (line 187), the token request (line 231)
Fairness ==
    \A c \in CallIds :
        /\ WF_vars(ProbeResponds(c))
        /\ WF_vars(RereadResponds(c))
        /\ WF_vars(GrantResponds(c))

\* the bundles of Init whose expiry comes from the token itself, under the
\* default buffer, for the checks that follow whole behaviours
InitFair ==
    /\ Init
    /\ credentials.refreshBeforeExpirySeconds = Undef
    /\ credentials.oauthTokenData.exp = Undef
    /\ credentials.oauthTokenData.expires_in = Undef
    /\ credentials.oauthTokenData.expires_at = Undef

SpecFair == InitFair /\ [][Next]_vars /\ Fairness

-----------------------------------------------------------------------------
(* supplyData and the client it hands to the host *)

ClientVariants == {"wrapped", "chat", "embed"}
Methods == {"invoke", "stream", "call", "generate"}

\* the token requests of a client all run in this slot, one after the other
RequestSlot == 1

\* what the original method of the downstream client can come back with
DownstreamOutcomes ==
    { [ok |-> TRUE,  status |-> Undef, responseStatus |-> Undef],
      [ok |-> FALSE, status |-> 401,   responseStatus |-> Undef],    \* error.status
      [ok |-> FALSE, status |-> Undef, responseStatus |-> 401],      \* error.response.status
      [ok |-> FALSE, status |-> 500,   responseStatus |-> Undef],
      [ok |-> FALSE, status |-> Undef, responseStatus |-> 403],
      [ok |-> FALSE, status |-> Undef, responseStatus |-> Undef] }   \* no status at all

ClientBundles ==
    { b \in Bundles :
        /\ b.access_token \in {NoToken, Tok("A", 1, "none", Undef), Tok("J1", 3, "object", 10000)}
        /\ b.expires_at = Undef /\ b.exp = Undef /\ b.expires_in = Undef }

ClientNowValues == {8000000, 9500000, 10000000}

InitClient ==
    /\ credentials \in [ oauthTokenData : ClientBundles,
                         refreshBeforeExpirySeconds : {Undef},
                         endpoint : Endpoints ]
    /\ nowMs \in ClientNowValues
    /\ hostWrites = 0
    /\ pc = [c \in CallIds |-> "idle"]
    /\ supplier = [c \in CallIds |-> "none"]
    /\ oauthData = [c \in CallIds |-> NoBundle]
    /\ atStart = [c \in CallIds |-> [writes |-> 0, afterGrant |-> FALSE]]
    /\ refreshed = [c \in CallIds |-> NoToken]
    /\ tokenData = [c \in CallIds |-> NoResponse]
    /\ result = [c \in CallIds |-> NoToken]
    /\ error = [c \in CallIds |-> "none"]
    /\ trace = [c \in CallIds |-> << >>]
    /\ variant \in ClientVariants
    /\ cpc = "start"
    /\ method = "none"
    /\ invocations = 0
    /\ apiKey = NoToken
    /\ keyFrom = 0
    /\ ctrace = << >>
    /\ attempts = << >>
    /\ requests = << >>
    /\ outcomes = << >>
    /\ invResult = NoResult
    /\ NoScopes
    /\ NoRefresh
    /\ NoTracing

\* getCredentialsWithFreshToken up to the first await inside getCurrentToken;
\* when it throws, the caller rejects and the client is left at failTo
BeginFreshCreds(at, failTo) ==
    IF ~(getCredentials(RequestSlot).endpoint # "")
    THEN /\ cpc' = failTo
         /\ invResult' = [kind |-> "error", attempt |-> 0,
                           error |-> Err("EndpointRequired", Undef, Undef, 0)]
         /\ UNCHANGED <<pc, supplier, oauthData, atStart, result, error, trace>>
    ELSE /\ cpc' = at
         /\ invResult' = NoResult
         /\ StartRequest(RequestSlot, variant)

\* supplyData starts: `const initialCreds = await getCredentialsWithFreshToken()`
supplyData ==
    /\ cpc = "start"
    /\ BeginFreshCreds("supply_creds", "failed")
    /\ UNCHANGED <<credentials, nowMs, scopeVars, refreshVars, tracingVars, hostWrites, refreshed, tokenData, variant, method,
                   invocations, apiKey, keyFrom, ctrace, attempts, requests, outcomes>>

\* the awaited getCredentialsWithFreshToken settles: the token is put into the
\* client (constructor argument or this.azureOpenAIApiKey) and, in a wrapper,
\* the original method is called
FreshCredsSettles ==
    LET c == RequestSlot IN
    /\ cpc \in {"supply_creds", "fresh_creds", "retry_creds"}
    /\ pc[c] \in {"returned", "raised"}
    /\ pc' = [pc EXCEPT ![c] = "idle"]
    /\ supplier' = [supplier EXCEPT ![c] = "none"]
    /\ oauthData' = [oauthData EXCEPT ![c] = NoBundle]
    /\ atStart' = [atStart EXCEPT ![c] = [writes |-> 0, afterGrant |-> FALSE]]
    /\ refreshed' = [refreshed EXCEPT ![c] = NoToken]
    /\ tokenData' = [tokenData EXCEPT ![c] = NoResponse]
    /\ result' = [result EXCEPT ![c] = NoToken]
    /\ error' = [error EXCEPT ![c] = "none"]
    /\ trace' = [trace EXCEPT ![c] = << >>]
    /\ IF pc[c] = "raised"
       THEN /\ cpc' = IF cpc = "supply_creds" THEN "failed" ELSE "handed"
            /\ invResult' = [kind |-> "error", attempt |-> 0,
                              error |-> Err(error[c], Undef, Undef, 0)]
            /\ UNCHANGED <<apiKey, keyFrom, ctrace, attempts, requests>>
       ELSE /\ apiKey' = result[c]
            /\ keyFrom' = invocations
            /\ UNCHANGED invResult
            /\ IF cpc = "supply_creds"
               THEN /\ cpc' = "handed"
                    /\ UNCHANGED <<ctrace, attempts, requests>>
               ELSE /\ cpc' = IF cpc = "fresh_creds" THEN "attempt" ELSE "retry_attempt"
                    /\ ctrace' = ctrace \o <<"token", "call">>
                    /\ attempts' = Append(attempts, [key |-> result[c], keyFrom |-> invocations])
                    /\ requests' = Append(requests,
                                          [token |-> result[c],
                                           refresh |-> \E i \in 1..Len(trace[c]) :
                                                          trace[c][i] \in {"probe", "grant"}])
    /\ UNCHANGED <<credentials, nowMs, scopeVars, refreshVars, tracingVars, hostWrites, variant, method, invocations, outcomes>>

\* the host calls a method of the client: the wrapper of the wrapped revision
\* asks for fresh credentials first, the other revisions run the method as built
Invoke ==
    /\ cpc = "handed"
    /\ invocations < MaxInvocations
    /\ \E m \in Methods : method' = m
    /\ invocations' = invocations + 1
    /\ requests' = << >>
    /\ outcomes' = << >>
    /\ IF variant = "wrapped"
       THEN /\ BeginFreshCreds("fresh_creds", "handed")
            /\ ctrace' = << >>
            /\ attempts' = << >>
       ELSE /\ cpc' = "attempt"
            /\ invResult' = NoResult
            /\ ctrace' = <<"call">>
            /\ attempts' = <<[key |-> apiKey, keyFrom |-> keyFrom]>>
            /\ UNCHANGED <<pc, supplier, oauthData, atStart, result, error, trace>>
    /\ UNCHANGED <<credentials, nowMs, scopeVars, refreshVars, tracingVars, hostWrites, refreshed, tokenData, variant, apiKey, keyFrom>>

\* variant: only the top-level status of the error is looked at
Is401_topLevelOnly(e) == e.status = 401

\* variant: every error counts as an authentication failure
Is401_anyError(e) == TRUE

\* error?.status === 401 || error?.response?.status === 401
Is401(e) == e.status = 401 \/ e.responseStatus = 401

\* variant: the retry is itself wrapped in the same catch
Retries_again(pos, m) == variant = "wrapped" /\ m \in {"invoke", "stream"}

\* the catch with the retry exists around the first call of originalInvoke and
\* originalStream only
Retries(pos, m) == variant = "wrapped" /\ pos = "attempt" /\ m \in {"invoke", "stream"}

\* the awaited original method settles
OriginalSettles ==
    /\ cpc \in {"attempt", "retry_attempt"}
    /\ \E o \in DownstreamOutcomes :
        LET e == Err("DownstreamError", o.status, o.responseStatus, Len(attempts)) IN
        /\ outcomes' = Append(outcomes, o)
        /\ IF o.ok
           THEN /\ cpc' = "handed"
                /\ invResult' = [kind |-> "value", attempt |-> Len(attempts), error |-> NoError]
                /\ ctrace' = ctrace \o <<"ok">>
                /\ UNCHANGED <<pc, supplier, oauthData, atStart, result, error, trace>>
           ELSE IF Retries(cpc, method) /\ Is401(e)
           THEN /\ BeginFreshCreds("retry_creds", "handed")
                /\ ctrace' = ctrace \o <<"rejected">>
           ELSE /\ cpc' = "handed"
                /\ invResult' = [kind |-> "error", attempt |-> Len(attempts), error |-> e]
                /\ ctrace' = ctrace \o <<"rejected">>
                /\ UNCHANGED <<pc, supplier, oauthData, atStart, result, error, trace>>
    /\ UNCHANGED <<credentials, nowMs, scopeVars, refreshVars, tracingVars, hostWrites, refreshed, tokenData, variant, method,
                   invocations, apiKey, keyFrom, attempts, requests>>

NextClient ==
    \/ supplyData
    \/ FreshCredsSettles
    \/ Invoke
    \/ OriginalSettles
    \/ ProbeResponds(RequestSlot)
    \/ RereadResponds(RequestSlot)
    \/ GrantResponds(RequestSlot)
    \/ HostRefresh

SpecClient == InitClient /\ [][NextClient]_vars

-----------------------------------------------------------------------------
(* The scope strings: the credential's hidden scope property and the scope *)
(* parameter of the refresh_token grant, both derived from apiScope.       *)
(* A string is held as the sequence of its space-separated scope names, a  *)
(* scope name as the sequence of its pieces, so that String.includes and   *)
(* the concatenations act on the text and not on a set of scopes.          *)

MaxScopeNames == 3

OfflineAccess == <<"offline_access">>

\* scope names an operator may type: offline_access itself, an API scope, and
\* an API scope whose application id has offline_access inside it
ScopeNames ==
    { OfflineAccess,
      <<"api://app/.default">>,
      <<"api://", "offline_access", "_app/.default">> }

ApiScopes == UNION { [1..n -> ScopeNames] : n \in 1..MaxScopeNames }

\* String.prototype.includes("offline_access") on the whole string: the needle
\* has no space, so it is found exactly when it lies inside one scope name
includesOfflineAccess(s) ==
    \E i \in 1..Len(s) : \E j \in 1..Len(s[i]) : s[i][j] = "offline_access"

\* credentials line 24: the default expression of the hidden scope property
credentialScope(s) ==
    IF includesOfflineAccess(s) THEN s ELSE <<OfflineAccess>> \o s

\* chat line 221: `offline_access ${apiScope}`
grantScope(s) == <<OfflineAccess>> \o s

InitScope ==
    /\ apiScope \in ApiScopes
    /\ scope = << >>
    /\ fullScope = << >>
    /\ credentials = [oauthTokenData |-> NoBundle, refreshBeforeExpirySeconds |-> Undef,
                      endpoint |-> "https://e/"]
    /\ nowMs = 0
    /\ hostWrites = 0
    /\ pc = [c \in CallIds |-> "idle"]
    /\ supplier = [c \in CallIds |-> "none"]
    /\ oauthData = [c \in CallIds |-> NoBundle]
    /\ atStart = [c \in CallIds |-> [writes |-> 0, afterGrant |-> FALSE]]
    /\ refreshed = [c \in CallIds |-> NoToken]
    /\ tokenData = [c \in CallIds |-> NoResponse]
    /\ result = [c \in CallIds |-> NoToken]
    /\ error = [c \in CallIds |-> "none"]
    /\ trace = [c \in CallIds |-> << >>]
    /\ NoClient
    /\ NoRefresh
    /\ NoTracing

\* the host resolves the hidden scope property when the credential is used
ResolveScope ==
    /\ scope = << >>
    /\ scope' = credentialScope(apiScope)
    /\ UNCHANGED <<credentials, nowMs, hostWrites, callVars, clientVars, apiScope, fullScope,
                   refreshVars, tracingVars>>

\* chat lines 220-221: the direct grant builds its scope parameter
BuildFullScope ==
    /\ fullScope = << >>
    /\ fullScope' = grantScope(apiScope)
    /\ UNCHANGED <<credentials, nowMs, hostWrites, callVars, clientVars, apiScope, scope,
                   refreshVars, tracingVars>>

NextScope ==
    \/ ResolveScope
    \/ BuildFullScope

SpecScope == InitScope /\ [][NextScope]_vars

-----------------------------------------------------------------------------
(* The Token Refresh node (TokenRefresh.node.ts): execute reads the        *)
(* credentials, issues one authenticated GET and passes its input through. *)
(* The collaborators reject with Error objects, so `error.message` in the  *)
(* catch block is always defined.                                          *)

ItemValues == {"a", "b", "c"}

\* what getInputData may return
InputItems == UNION { [1..n -> ItemValues] : n \in 0..MaxItems }

\* no token request and no client exist
NoTokenRequests ==
    /\ credentials = [oauthTokenData |-> NoBundle, refreshBeforeExpirySeconds |-> Undef,
                      endpoint |-> "https://e/"]
    /\ nowMs = 0
    /\ hostWrites = 0
    /\ pc = [c \in CallIds |-> "idle"]
    /\ supplier = [c \in CallIds |-> "none"]
    /\ oauthData = [c \in CallIds |-> NoBundle]
    /\ atStart = [c \in CallIds |-> [writes |-> 0, afterGrant |-> FALSE]]
    /\ refreshed = [c \in CallIds |-> NoToken]
    /\ tokenData = [c \in CallIds |-> NoResponse]
    /\ result = [c \in CallIds |-> NoToken]
    /\ error = [c \in CallIds |-> "none"]
    /\ trace = [c \in CallIds |-> << >>]
    /\ NoClient

InitRefresh ==
    /\ items \in InputItems
    /\ xpc = "start"
    /\ probes = 0
    /\ output = << >>
    /\ xlog = << >>
    /\ NoTokenRequests
    /\ NoScopes
    /\ NoTracing

\* line 60: return [items]
RefreshReturn(evs) ==
    /\ xpc' = "returned"
    /\ output' = <<items>>
    /\ xlog' = xlog \o evs
    /\ UNCHANGED probes

\* variant: the error of the test request is thrown again
RefreshCatch_rethrows ==
    /\ xpc' = "raised"
    /\ xlog' = xlog \o <<"test_request_completed">>
    /\ UNCHANGED <<probes, output>>

\* lines 51-60: the catch block logs and execution continues with the return
RefreshCatch == RefreshReturn(<<"test_request_completed">>)

\* lines 30-36: getInputData, then the credentials are awaited
execute ==
    /\ xpc = "start"
    /\ xpc' = "credentials"
    /\ UNCHANGED <<items, probes, output, xlog>>
    /\ UNCHANGED <<credentials, nowMs, hostWrites, callVars, clientVars, scopeVars, tracingVars>>

\* lines 36-48: getCredentials settles; on success the test request is issued
RefreshCredentialsRead ==
    /\ xpc = "credentials"
    /\ \E raises \in BOOLEAN :
        IF raises
        THEN RefreshCatch
        ELSE /\ xpc' = "probe"
             /\ probes' = probes + 1
             /\ xlog' = xlog \o <<"making_test_request">>
             /\ UNCHANGED output
    /\ UNCHANGED <<items, credentials, nowMs, hostWrites, callVars, clientVars, scopeVars,
                   tracingVars>>

\* lines 41-60: httpRequestWithAuthentication settles
RefreshProbeSettles ==
    /\ xpc = "probe"
    /\ \E raises \in BOOLEAN :
        IF raises
        THEN RefreshCatch
        ELSE RefreshReturn(<<"token_is_valid">>)
    /\ UNCHANGED <<items, credentials, nowMs, hostWrites, callVars, clientVars, scopeVars,
                   tracingVars>>

NextRefresh ==
    \/ execute
    \/ RefreshCredentialsRead
    \/ RefreshProbeSettles

SpecRefresh == InitRefresh /\ [][NextRefresh]_vars

-----------------------------------------------------------------------------
(* The tracing callback handler N8nLlmTracing (part_001 lines 35-215).     *)
(* Its handlers are async functions without an await, so each event is one *)
(* step. Run ids are the distinct ids LangChain hands out, one start per   *)
(* id; an end or error event may also arrive for an id that never started  *)
(* (the fallback of lines 88 and 174). #parentRunIndex is left unset, so   *)
(* sourceNodeRunIndex is undefined throughout. A header name is held as    *)
(* its first two characters and the rest, which is what startsWith('x-')   *)
(* looks at; error.headers is a plain object, as its type says.            *)

HeaderName(first, rest) == [first |-> first, rest |-> rest]

XRequestId == HeaderName("x-", "request-id")
Authorization == HeaderName("au", "thorization")
ApiKey == HeaderName("ap", "i-key")
UpperXTrace == HeaderName("X-", "Trace-Id")

\* error objects handed to handleLLMError: without a headers field, and with
\* headers of several shapes; a NodeError or any other object
ErrorInputs ==
    [ isNodeError : BOOLEAN, hasHeaders : {FALSE}, headers : {{}} ]
    \cup
    [ isNodeError : BOOLEAN, hasHeaders : {TRUE},
      headers : { {}, {XRequestId}, {Authorization, XRequestId},
                  {ApiKey, UpperXTrace, Authorization} } ]

NoErrorInput == [isNodeError |-> FALSE, hasHeaders |-> FALSE, headers |-> {}]

\* completionTokens reported by the LLM result
CompletionTokens == {0, 5}

\* key.startsWith('x-')
startsWithX(key) == key.first = "x-"

\* variant: the headers are recorded as they came
filterHeaders_keepsAll(e) == e

\* lines 177-185: delete every header whose key does not start with 'x-'
filterHeaders(e) ==
    IF e.hasHeaders
    THEN [e EXCEPT !.headers = { key \in e.headers : startsWithX(key) }]
    ELSE e

\* variant: the index is always taken from the size of the map
runDetails_countsKeys(r) ==
    [index |-> Cardinality({ k \in RunIds : runsMap[k] # NoRun }), messages |-> Undef]

\* lines 88 and 174: this.runsMap[runId] ?? { index: Object.keys(this.runsMap).length }
runDetails(r) ==
    IF runsMap[r] # NoRun
    THEN runsMap[r]
    ELSE [index |-> Cardinality({ k \in RunIds : runsMap[k] # NoRun }), messages |-> Undef]

InitTracing ==
    /\ runsMap = [r \in RunIds |-> NoRun]
    /\ runState = [r \in RunIds |-> "new"]
    /\ addedAt = [r \in RunIds |-> Undef]
    /\ nextRunIndex \in {0, 1}
    /\ outputs = << >>
    /\ aiEvents = << >>
    /\ received = << >>
    /\ NoTokenRequests
    /\ NoScopes
    /\ NoRefresh

\* lines 143-171: addInputData hands out the host's run index, which is saved
handleLLMStart(r) ==
    /\ runState[r] = "new"
    /\ runState' = [runState EXCEPT ![r] = "started"]
    /\ addedAt' = [addedAt EXCEPT ![r] = nextRunIndex]
    /\ nextRunIndex' = nextRunIndex + 1
    /\ runsMap' = [runsMap EXCEPT ![r] = [index |-> nextRunIndex, messages |-> r]]
    /\ UNCHANGED <<outputs, aiEvents, received>>
    /\ UNCHANGED <<credentials, nowMs, hostWrites, callVars, clientVars, scopeVars, refreshVars>>

\* lines 85-141: without saved run details `runDetails.messages.map` throws
\* (line 119) before anything is recorded
handleLLMEnd(r) ==
    /\ runState[r] \in {"new", "started"}
    /\ LET d == runDetails(r) IN
        IF d.messages = Undef
        THEN /\ runState' = [runState EXCEPT ![r] = "end_raised"]
             /\ UNCHANGED <<outputs, aiEvents>>
        ELSE \E tokens \in CompletionTokens :
             /\ runState' = [runState EXCEPT ![r] = "ended"]
             /\ outputs' = Append(outputs,
                    [run |-> r, index |-> d.index, kind |-> "output",
                     response |-> IF tokens > 0 THEN "tokenUsage" ELSE "tokenUsageEstimate",
                     error |-> NoErrorInput, wrapped |-> FALSE])
             /\ aiEvents' = Append(aiEvents,
                    [name |-> "ai-llm-generated-output", run |-> r, error |-> NoErrorInput])
    /\ UNCHANGED <<runsMap, addedAt, nextRunIndex, received>>
    /\ UNCHANGED <<credentials, nowMs, hostWrites, callVars, clientVars, scopeVars, refreshVars>>

\* lines 173-209: filter the headers, record the error (wrapped unless it is a
\* NodeError), log the event
handleLLMError(r) ==
    /\ runState[r] \in {"new", "started"}
    /\ \E e \in ErrorInputs :
        LET d == runDetails(r)
            f == filterHeaders(e) IN
        /\ outputs' = Append(outputs,
               [run |-> r, index |-> d.index, kind |-> "error", response |-> "none",
                error |-> f, wrapped |-> ~e.isNodeError])
        /\ aiEvents' = Append(aiEvents, [name |-> "ai-llm-errored", run |-> r, error |-> f])
        /\ received' = Append(received, e)
    /\ runState' = [runState EXCEPT ![r] =
                        IF runState[r] = "started" THEN "errored" ELSE "orphan_errored"]
    /\ UNCHANGED <<runsMap, addedAt, nextRunIndex>>
    /\ UNCHANGED <<credentials, nowMs, hostWrites, callVars, clientVars, scopeVars, refreshVars>>

NextTracing ==
    \/ \E r \in RunIds : handleLLMStart(r)
    \/ \E r \in RunIds : handleLLMEnd(r)
    \/ \E r \in RunIds : handleLLMError(r)

SpecTracing == InitTracing /\ [][NextTracing]_vars

-----------------------------------------------------------------------------
(* Vocabulary of the properties, taken from the specification's sections 3 and 4.2 *)

InTrace(c, e) == \E i \in 1..Len(trace[c]) : trace[c][i] = e

\* every occurrence of b in the call's trace has an earlier occurrence of a
Precedes(c, a, b) ==
    \A i \in 1..Len(trace[c]) :
        trace[c][i] = b => \E j \in 1..(i - 1) : trace[c][j] = a

\* the call has read a bundle that holds an access token
HoldsToken(c) == pc[c] # "idle" /\ oauthData[c].access_token.s # ""

\* the call is over
Settled(c) == pc[c] \in {"returned", "raised"}

\* expClaim: the exp member of the access token's JWT payload, if it decodes to one
ExpClaim(od) ==
    IF od.access_token.parts = 3 /\ od.access_token.payload = "object"
    THEN od.access_token.exp ELSE Undef

\* authoritative expiry = expClaim if present, else expiresAt, else none
AuthoritativeExpiry(od) ==
    IF ExpClaim(od) # Undef THEN ExpClaim(od) ELSE od.expires_at

\* the configured buffer if inside [60, 3600], else 900
EffectiveBuffer ==
    LET b == credentials.refreshBeforeExpirySeconds IN
    IF b # Undef /\ 60 <= b /\ b <= 3600 THEN b ELSE 900

HasExpiry(c) == AuthoritativeExpiry(oauthData[c]) # Undef

\* now >= expiryEpoch
AlreadyExpired(c) ==
    HasExpiry(c) /\ nowMs >= AuthoritativeExpiry(oauthData[c]) * 1000

\* now >= expiryEpoch - refreshBufferSeconds
PastBuffer(c) ==
    HasExpiry(c) /\ nowMs >= (AuthoritativeExpiry(oauthData[c]) - EffectiveBuffer) * 1000

\* expiryEpoch - refreshBufferSeconds <= now < expiryEpoch
ExpiringSoon(c) == PastBuffer(c) /\ ~AlreadyExpired(c)

\* the token endpoint's answer carries no usable access_token
AnswerFails(o) ==
    o.raises \/ o.status < 200 \/ o.status > 299 \/ ~o.json \/ o.access_token.s = ""

\* the gateway probe raised (the request itself or the re-read after it)
ProbeFailed(c) == InTrace(c, "probe_raised") \/ InTrace(c, "reread_raised")

-----------------------------------------------------------------------------
(* Properties *)

\* C1: a token request on a bundle that holds a non-empty access token never
\* raises, whatever the probe, the re-read and the token endpoint do, and what
\* it returns is a non-empty token; a request that raised read no access token
\* and raised MissingToken.
C1_RaisesOnlyMissingToken ==
    \A c \in CallIds :
        /\ HoldsToken(c) => pc[c] # "raised" /\ error[c] = "none"
        /\ pc[c] = "returned" => result[c].s # ""
        /\ pc[c] = "raised" => oauthData[c].access_token.s = "" /\ error[c] = "MissingToken"

C1_Witness ==
    \E c \in CallIds :
        /\ pc[c] = "returned"
        /\ InTrace(c, "probe_raised")
        /\ InTrace(c, "token_response")
        /\ tokenData[c].status = 400

\* C2: a token request that reads a bundle whose access token is absent or
\* empty raises MissingToken right after the read: its only events are the read
\* and the throw (no expiry evaluation, no probe, no token-endpoint request).
C2_MissingTokenFailsFast ==
    \A c \in CallIds :
        pc[c] # "idle" /\ oauthData[c].access_token.s = ""
            => /\ pc[c] = "raised"
               /\ error[c] = "MissingToken"
               /\ trace[c] = <<"read", "throw">>

C2_Witness ==
    \E c \in CallIds :
        /\ pc[c] = "raised"
        /\ oauthData[c].access_token = EmptyToken
        /\ oauthData[c].expires_at = 10000
        /\ nowMs >= 10000000

C5_FreshTokenNoNetwork ==
    \A c \in CallIds :
        HoldsToken(c) /\ HasExpiry(c) /\ ~PastBuffer(c)
            => /\ pc[c] = "returned"
               /\ result[c] = oauthData[c].access_token
               /\ ~InTrace(c, "probe")
               /\ ~InTrace(c, "token_request")

C5_Witness ==
    \E c \in CallIds :
        /\ HoldsToken(c) /\ HasExpiry(c) /\ ~PastBuffer(c)
        /\ credentials.refreshBeforeExpirySeconds = 1800
        /\ nowMs = 8000000
        /\ pc[c] = "returned"

\* C6: when the token is past the buffer and every attempted strategy failed
\* (the probe raised; the grant had no refresh token or its answer carried no
\* usable access_token), the call returns exactly the access token it read at
\* its start and raises nothing.
C6_AllStrategiesFailReturnsStale ==
    \A c \in CallIds :
        /\ HoldsToken(c) /\ PastBuffer(c) /\ Settled(c)
        /\ InTrace(c, "probe") => ProbeFailed(c)
        /\ InTrace(c, "token_request") => AnswerFails(tokenData[c])
        => pc[c] = "returned" /\ result[c] = oauthData[c].access_token

C6_Witness ==
    \E c \in CallIds :
        /\ HoldsToken(c) /\ PastBuffer(c) /\ Settled(c)
        /\ InTrace(c, "reread_raised")
        /\ InTrace(c, "token_response")
        /\ tokenData[c].status = 200 /\ ~tokenData[c].json
        /\ result[c] = oauthData[c].access_token

\* C7 as stated: in the chat token request, when the re-read after a completed
\* probe holds the same access token and a refresh token is present, the
\* token-endpoint request is issued.
C7_UnchangedFallsThroughToGrant ==
    \A c \in CallIds :
        /\ supplier[c] = "chat" /\ Settled(c) /\ AlreadyExpired(c)
        /\ InTrace(c, "reread_ok")
        /\ refreshed[c] = oauthData[c].access_token
        /\ oauthData[c].refresh_token # ""
        => InTrace(c, "token_request")

\* C7 amended: when the re-read after a completed probe holds the same access
\* token, the call returns that token without any token-endpoint request; the
\* direct grant is reached only when the probe or the re-read raised, and then
\* the token-endpoint request is issued exactly when a refresh token is present.
C7_UnchangedReturnsStale ==
    \A c \in CallIds :
        HoldsToken(c) /\ AlreadyExpired(c) /\ Settled(c) /\ InTrace(c, "probe")
            => /\ InTrace(c, "reread_ok") /\ refreshed[c] = oauthData[c].access_token
                   => /\ result[c] = oauthData[c].access_token
                      /\ ~InTrace(c, "grant")
                      /\ ~InTrace(c, "token_request")
               /\ InTrace(c, "grant") <=> supplier[c] = "chat" /\ ProbeFailed(c)
               /\ InTrace(c, "token_request")
                   <=> InTrace(c, "grant") /\ oauthData[c].refresh_token # ""

C7_Witness ==
    \E c \in CallIds :
        /\ supplier[c] = "chat" /\ pc[c] = "returned" /\ AlreadyExpired(c)
        /\ InTrace(c, "reread_ok")
        /\ refreshed[c] = oauthData[c].access_token
        /\ oauthData[c].refresh_token # ""

C9_NoRefreshTokenNoRequest ==
    \A c \in CallIds :
        InTrace(c, "grant") /\ oauthData[c].refresh_token = ""
            => /\ pc[c] = "returned"
               /\ ~InTrace(c, "token_request")
               /\ trace[c][Len(trace[c]) - 1] = "grant"
               /\ trace[c][Len(trace[c])] = "return"

C9_Witness ==
    \E c \in CallIds :
        /\ InTrace(c, "grant")
        /\ InTrace(c, "probe_raised")
        /\ oauthData[c].refresh_token = ""
        /\ pc[c] = "returned"

\* C10: when the JWT exp claim and expires_at are both present and different,
\* what the token request does follows from the exp claim alone: the chat
\* request refreshes exactly when now >= exp - buffer and starts with the
\* probe exactly when now >= exp; the embeddings request probes exactly when
\* now >= exp.
C10_ExpClaimDecides ==
    \A c \in CallIds :
        /\ HoldsToken(c)
        /\ ExpClaim(oauthData[c]) # Undef
        /\ oauthData[c].expires_at # Undef
        /\ oauthData[c].expires_at # ExpClaim(oauthData[c])
        => LET exp == ExpClaim(oauthData[c]) IN
           /\ supplier[c] = "chat" =>
                /\ (InTrace(c, "probe") \/ InTrace(c, "grant"))
                       <=> nowMs >= (exp - EffectiveBuffer) * 1000
                /\ InTrace(c, "probe") <=> nowMs >= exp * 1000
           /\ supplier[c] = "embed" =>
                /\ InTrace(c, "probe") <=> nowMs >= exp * 1000
                /\ ~InTrace(c, "grant")

C10_Witness ==
    \E c \in CallIds :
        /\ supplier[c] = "chat"
        /\ ExpClaim(oauthData[c]) = 10000
        /\ oauthData[c].expires_at = 20000
        /\ nowMs = 9500000
        /\ InTrace(c, "grant")

\* C11 as stated: a token request on a bundle with neither a decodable JWT exp
\* claim nor expires_at (expires_in present or not) returns the access token
\* it read, issues neither a probe nor a token-endpoint request, and the chat
\* request logs that it cannot evaluate the expiry.
C11_NoExpClaimNoExpiresAt ==
    \A c \in CallIds :
        /\ HoldsToken(c)
        /\ ExpClaim(oauthData[c]) = Undef
        /\ oauthData[c].expires_at = Undef
        => /\ pc[c] = "returned"
           /\ result[c] = oauthData[c].access_token
           /\ ~InTrace(c, "probe")
           /\ ~InTrace(c, "token_request")
           /\ supplier[c] = "chat" => InTrace(c, "cannot_evaluate")

\* C11 amended: a token request on a bundle with neither a decodable JWT exp
\* claim, nor expires_at, nor an exp member of the token data (expires_in
\* present or not) returns the access token it read, issues neither a probe
\* nor a token-endpoint request, and the chat request logs that it cannot
\* evaluate the expiry.
C11_NoExpiryKnownReturnsUnchanged ==
    \A c \in CallIds :
        /\ HoldsToken(c)
        /\ ExpClaim(oauthData[c]) = Undef
        /\ oauthData[c].expires_at = Undef
        /\ oauthData[c].exp = Undef
        => /\ pc[c] = "returned"
           /\ result[c] = oauthData[c].access_token
           /\ ~InTrace(c, "probe")
           /\ ~InTrace(c, "token_request")
           /\ ~InTrace(c, "refresh_due")
           /\ supplier[c] = "chat" => InTrace(c, "cannot_evaluate")

C11_Witness ==
    \E c \in CallIds :
        /\ supplier[c] = "chat"
        /\ oauthData[c].access_token.s = "Jnoexp"
        /\ oauthData[c].expires_at = Undef /\ oauthData[c].exp = Undef
        /\ oauthData[c].expires_in = 3600
        /\ InTrace(c, "expires_in_only")
        /\ pc[c] = "returned"

\* C12: in every token request, chat and embeddings alike, the past-buffer
\* test uses the configured buffer when it lies in [60, 3600] and 900
\* otherwise: a request that read a token with an exp claim finds the refresh
\* due when now is later than exp minus that effective buffer and not due
\* when now is earlier, and no buffer value makes the request raise.
C12_EffectiveBufferInEveryRequest ==
    \A c \in CallIds :
        HoldsToken(c) /\ ExpClaim(oauthData[c]) # Undef
            => LET due == (ExpClaim(oauthData[c]) - EffectiveBuffer) * 1000 IN
               /\ pc[c] # "raised"
               /\ nowMs > due => InTrace(c, "refresh_due")
               /\ nowMs < due => ~InTrace(c, "refresh_due")

-----------------------------------------------------------------------------
(* Vocabulary of the properties about the client, from the specification's 4.4 *)

\* the client came from the revision whose supplyData wraps the methods
Wrapped == variant = "wrapped"

\* an invocation of the client has settled
InvocationOver == cpc = "handed" /\ invocations >= 1

\* the attempt failed with HTTP 401, at the error's status or its response.status
Failed401(o) == ~o.ok /\ (o.status = 401 \/ o.responseStatus = 401)

\* the invocation rejected with the very error the n-th attempt raised
Propagates(n) ==
    /\ invResult.kind = "error"
    /\ invResult.attempt = n
    /\ invResult.error.name = "DownstreamError"
    /\ invResult.error.attempt = n
    /\ invResult.error.status = outcomes[n].status
    /\ invResult.error.responseStatus = outcomes[n].responseStatus

\* C13: a settled invoke or stream of the wrapped client whose first attempt
\* failed with 401 (top-level status or nested response.status) called the
\* original method exactly twice with one token request completed and
\* installed before each call, and when the second attempt succeeded the
\* wrapper returned the second attempt's value.
C13_RetriedOnceAfter401 ==
    /\ Wrapped /\ method \in {"invoke", "stream"} /\ InvocationOver
    /\ Len(outcomes) >= 1 /\ Failed401(outcomes[1])
    => /\ Len(outcomes) = 2 /\ Len(attempts) = 2 /\ Len(requests) = 2
       /\ SubSeq(ctrace, 1, 5) = <<"token", "call", "rejected", "token", "call">>
       /\ outcomes[2].ok
            => /\ invResult.kind = "value" /\ invResult.attempt = 2
               /\ ctrace = <<"token", "call", "rejected", "token", "call", "ok">>

C13_Witness ==
    /\ Wrapped /\ method = "stream" /\ InvocationOver
    /\ Len(outcomes) = 2
    /\ outcomes[1].responseStatus = 401
    /\ outcomes[2].ok
    /\ invResult.kind = "value" /\ invResult.attempt = 2

\* C14: in an invocation of the wrapped client the original method is called
\* at most twice and at most two token requests are made (one before the
\* first attempt, one more after a 401), whatever the downstream answers; when
\* the second attempt fails too, the invocation is over and rejects with that
\* second error.
C14_AtMostOneRetry ==
    Wrapped
        => /\ Len(attempts) <= 2 /\ Len(outcomes) <= 2
           /\ Len(requests) + (IF cpc \in {"fresh_creds", "retry_creds"} THEN 1 ELSE 0) <= 2
           /\ Len(outcomes) = 2 /\ ~outcomes[2].ok
                => /\ InvocationOver
                   /\ Propagates(2)

C14_Witness ==
    /\ Wrapped /\ InvocationOver
    /\ Len(outcomes) = 2
    /\ outcomes[1].status = 401
    /\ outcomes[2].status = 401
    /\ invResult.kind = "error" /\ invResult.attempt = 2

\* C15: when the first attempt of an invocation of the wrapped client fails
\* with an error that is not a 401 (neither status nor response.status is
\* 401), the invocation is over: the original method was called once, one
\* token request was made, and the invocation rejects with that first error.
C15_Non401NotRetried ==
    /\ Wrapped
    /\ Len(outcomes) >= 1 /\ ~outcomes[1].ok /\ ~Failed401(outcomes[1])
    => /\ InvocationOver
       /\ Len(outcomes) = 1 /\ Len(attempts) = 1 /\ Len(requests) = 1
       /\ ctrace = <<"token", "call", "rejected">>
       /\ Propagates(1)

C15_Witness ==
    /\ Wrapped /\ method = "invoke" /\ InvocationOver
    /\ outcomes = <<[ok |-> FALSE, status |-> 500, responseStatus |-> Undef]>>
    /\ invResult.kind = "error"

\* C16: the token request of the 401 retry path attempts a refresh whatever
\* the expiry check says: the second token request of an invocation of the
\* wrapped client ran the probe or the direct grant.
C16_RetryForcesRefresh ==
    Wrapped /\ Len(requests) = 2 => requests[2].refresh

\* C17: every call of the original method in an invocation of the client, of
\* any revision, runs with a key that a token request completed in that same
\* invocation installed, never with the key of the construction or of an
\* earlier invocation.
C17_TokenInstalledPerInvocation ==
    \A i \in 1..Len(attempts) :
        /\ attempts[i].keyFrom = invocations
        /\ Len(requests) >= 1

-----------------------------------------------------------------------------
(* Properties about several token requests on one credential *)

\* c read the store when a call had returned a token of the token endpoint,
\* and the host wrote nothing between d's read and c's
Follows(c, d) ==
    /\ pc[c] # "idle"
    /\ atStart[c].afterGrant
    /\ atStart[c].writes = atStart[d].writes

\* the call asked the token endpoint and got a usable access_token
GrantSucceeded(c) ==
    /\ pc[c] = "returned"
    /\ InTrace(c, "token_response")
    /\ ~AnswerFails(tokenData[c])

\* C18: however two token requests on one credential and the host's writes
\* interleave, a request that read an access token never raises, and what it
\* returned is a non-empty token that is the one it read at its start, the
\* one it re-read after its probe, or the one its own token-endpoint request
\* answered with.
C18_RaceIsHarmless ==
    \A c \in CallIds :
        HoldsToken(c)
            => /\ pc[c] # "raised"
               /\ pc[c] = "returned"
                    => /\ result[c].s # ""
                       /\ \/ result[c] = oauthData[c].access_token
                          \/ InTrace(c, "reread_ok") /\ result[c] = refreshed[c]
                          \/ InTrace(c, "token_response") /\ result[c] = tokenData[c].access_token

\* the host wrote while call 1 was at its probe and after call 2 had read
C18_Witness ==
    /\ pc[1] = "returned" /\ pc[2] = "returned"
    /\ atStart[1].writes = 0 /\ atStart[2].writes = 0 /\ hostWrites = 1
    /\ InTrace(1, "reread_ok") /\ result[1] = HostToken(1)
    /\ InTrace(2, "token_request") /\ result[2] = GrantToken

\* C19: a token request that starts after the host has written a new access
\* token since an earlier request read the store, and for which no refresh is
\* due, returns the token the host wrote last before its start, not what the
\* store held when the earlier request read it.
C19_EveryCallReadsTheStore ==
    \A c, d \in CallIds :
        /\ pc[c] # "idle" /\ pc[d] # "idle"
        /\ atStart[d].writes < atStart[c].writes
        /\ ~InTrace(c, "refresh_due")
        => /\ pc[c] = "returned"
           /\ oauthData[c].access_token = HostToken(atStart[c].writes)
           /\ result[c] = HostToken(atStart[c].writes)
           /\ result[c] # oauthData[d].access_token

\* call 1 was over in its first step, then the host wrote, then call 2 started
C19_Witness ==
    /\ pc[1] = "returned" /\ pc[2] = "returned"
    /\ trace[1] = <<"read", "evaluate", "return">>
    /\ atStart[1].writes = 0 /\ atStart[2].writes = 1
    /\ result[1].s = "J2"
    /\ result[2] = HostToken(1)

\* C20 as stated: after a chat token request got a new token from the token
\* endpoint, the store holds the bundle the request read, and a later chat
\* request at the same clock reading finds the same bundle past the buffer
\* and issues a token-endpoint request with the same refresh token.
C20_LaterCallGrantsAgain ==
    \A c, d \in CallIds :
        /\ supplier[c] = "chat" /\ GrantSucceeded(c)
        /\ supplier[d] = "chat" /\ Follows(d, c) /\ Settled(d)
        => /\ hostWrites = atStart[c].writes => credentials.oauthTokenData = oauthData[c]
           /\ oauthData[d] = oauthData[c]
           /\ InTrace(d, "refresh_due")
           /\ InTrace(d, "token_request")

\* C20 amended: after a chat token request got a new token from the token
\* endpoint, the store holds the bundle the request read, and a later chat
\* request at the same clock reading finds the same bundle past the buffer
\* and starts as the first one did: with a token-endpoint request carrying
\* the same refresh token when the token is not yet expired, and with the
\* probe when it is expired, followed by the token-endpoint request exactly
\* when that probe raised.
C20_GrantLeavesStoreAlone ==
    \A c, d \in CallIds :
        /\ supplier[c] = "chat" /\ GrantSucceeded(c)
        /\ supplier[d] = "chat" /\ Follows(d, c) /\ Settled(d)
        => /\ hostWrites = atStart[c].writes => credentials.oauthTokenData = oauthData[c]
           /\ oauthData[d] = oauthData[c]
           /\ InTrace(d, "refresh_due")
           /\ InTrace(d, "probe") <=> InTrace(c, "probe")
           /\ InTrace(d, "token_request") <=> (InTrace(d, "probe") => ProbeFailed(d))

C20_Witness ==
    /\ supplier[1] = "chat" /\ GrantSucceeded(1) /\ ExpiringSoon(1)
    /\ result[1] = GrantToken
    /\ supplier[2] = "chat" /\ Follows(2, 1) /\ Settled(2)
    /\ InTrace(2, "token_request")
    /\ oauthData[2].refresh_token = oauthData[1].refresh_token
    /\ hostWrites = 0
    /\ credentials.oauthTokenData = oauthData[1]

-----------------------------------------------------------------------------
(* Properties about the token acquisition of supplyData *)

\* supplyData rejected: no client was handed to the host
SupplyFailed == cpc = "failed"

\* the store holds an access token (the host only ever replaces it by another)
StoreHoldsToken == credentials.oauthTokenData.access_token.s # ""

\* C21 as stated: the token acquisition of supplyData raises nothing when the
\* bundle holds an access token, and when it raises the error is MissingToken.
C21_OnlyMissingTokenIsFatal ==
    /\ StoreHoldsToken => ~SupplyFailed
    /\ SupplyFailed => invResult.error.name = "MissingToken"

\* C21 amended: the token acquisition of supplyData raises nothing when the
\* credential has an endpoint and the bundle holds an access token; when it
\* raises, either the endpoint is missing and the error is EndpointRequired,
\* or the endpoint is set, the bundle holds no access token and the error is
\* MissingToken.
C21_FatalOnlyWithoutEndpointOrToken ==
    /\ StoreHoldsToken /\ credentials.endpoint # "" => ~SupplyFailed
    /\ SupplyFailed
         => /\ invResult.kind = "error"
            /\ IF credentials.endpoint = ""
               THEN invResult.error.name = "EndpointRequired"
               ELSE ~StoreHoldsToken /\ invResult.error.name = "MissingToken"

\* the probe raised, the token endpoint rejected, and the client was still built
C21_Witness ==
    /\ variant = "chat" /\ cpc = "handed" /\ invocations = 0
    /\ nowMs = 10000000
    /\ credentials.oauthTokenData.refresh_token = "R"
    /\ hostWrites = 0
    /\ apiKey.s = "J1"

-----------------------------------------------------------------------------
(* Properties about the gateway probe and the re-read that follows it *)

\* the call has re-read the bundle, or is waiting for the re-read
Rereads(c) ==
    pc[c] = "reread" \/ InTrace(c, "reread_ok") \/ InTrace(c, "reread_raised")

\* C22 as stated: a call whose probe request raised swallows the error and
\* re-reads the bundle once more; a re-read token that differs is returned.
C22_ProbeErrorRereads ==
    \A c \in CallIds :
        InTrace(c, "probe_raised")
            => /\ pc[c] # "raised"
               /\ Rereads(c)
               /\ (pc[c] = "returned" /\ ~InTrace(c, "token_request")
                     /\ Truthy(refreshed[c]) /\ refreshed[c] # oauthData[c].access_token
                     => result[c] = refreshed[c])

\* the re-read after a completed probe found a non-empty token other than the
\* one read at the start
RereadChanged(c) ==
    /\ InTrace(c, "reread_ok")
    /\ refreshed[c].s # "" /\ refreshed[c] # oauthData[c].access_token

\* the re-read after a completed probe found the token read at the start
RereadUnchanged(c) ==
    InTrace(c, "reread_ok") /\ refreshed[c] = oauthData[c].access_token

\* C23: when the probe completes without error and the re-read bundle holds a
\* non-empty access token that differs from the one read at the start, the call
\* returns the re-read token and issues no token-endpoint request.
C23_ChangedRereadReturned ==
    \A c \in CallIds :
        RereadChanged(c)
            => /\ pc[c] = "returned"
               /\ result[c] = refreshed[c]
               /\ result[c] # oauthData[c].access_token
               /\ ~InTrace(c, "probe_raised")
               /\ ~InTrace(c, "token_request")

\* both suppliers have returned a token the host wrote during their probes
C23_Witness ==
    /\ supplier[1] = "chat" /\ supplier[2] = "embed"
    /\ \A c \in CallIds :
        /\ pc[c] = "returned" /\ RereadChanged(c)
        /\ oauthData[c].refresh_token = "R"
        /\ result[c] = HostToken(1)

\* C24: when the probe completes and the re-read token equals the token read
\* at the start, the probe strategy ends the call with that unchanged token:
\* it is a success without effect, not a failure, so nothing is raised and no
\* further strategy is started after the re-read.
C24_UnchangedRereadIsNoOpSuccess ==
    \A c \in CallIds :
        RereadUnchanged(c)
            => /\ pc[c] = "returned"
               /\ result[c] = oauthData[c].access_token
               /\ ~ProbeFailed(c)
               /\ trace[c][Len(trace[c]) - 1] = "reread_ok"
               /\ trace[c][Len(trace[c])] = "return"
               /\ ~InTrace(c, "grant")

\* a chat call that holds a refresh token kept its expired token after the probe
C24_Witness ==
    \E c \in CallIds :
        /\ supplier[c] = "chat" /\ RereadUnchanged(c)
        /\ oauthData[c].refresh_token = "R"
        /\ oauthData[c].access_token.s = "J1"
        /\ hostWrites = 0
        /\ pc[c] = "returned" /\ result[c].s = "J1"

-----------------------------------------------------------------------------
(* Properties relating the chat and the embeddings supplier *)

IsStrategyEvent(e) == e \in {"probe", "grant"}

\* the strategies the call started, in order: <<>>, <<"probe">>, <<"grant">>
\* or <<"probe", "grant">>
StrategyAttempts(c) == SelectSeq(trace[c], IsStrategyEvent)

\* the two calls read the same bundle under the same clock and saw their
\* collaborators answer alike
SameInputs(c, d) ==
    /\ Settled(c) /\ Settled(d)
    /\ oauthData[c] = oauthData[d]
    /\ hostWrites = 0
    /\ InTrace(c, "probe_raised") <=> InTrace(d, "probe_raised")
    /\ InTrace(c, "reread_raised") <=> InTrace(d, "reread_raised")

\* C25 as stated: on the same bundle, clock and collaborator responses, the
\* embeddings request starts the same strategies in the same order as the chat
\* request and returns the same token.
C25_EmbeddingsFollowsChat ==
    \A c, d \in CallIds :
        supplier[c] = "chat" /\ supplier[d] = "embed" /\ SameInputs(c, d)
            => /\ StrategyAttempts(d) = StrategyAttempts(c)
               /\ pc[d] = pc[c]
               /\ result[d] = result[c]

-----------------------------------------------------------------------------
(* Properties about the four wrapped methods *)

\* C26 as stated: every wrapped method (invoke, stream, call, generate) gets
\* the same decoration: a token is requested and installed before the original
\* runs, a first attempt that fails with 401 is followed by exactly one more
\* token request and one retry, and any other first attempt is the wrapper's
\* own outcome.
C26_SameDecorationForEveryMethod ==
    Wrapped /\ method \in Methods /\ InvocationOver /\ Len(outcomes) >= 1
        => /\ SubSeq(ctrace, 1, 2) = <<"token", "call">>
           /\ IF Failed401(outcomes[1])
              THEN Len(outcomes) = 2 /\ Len(requests) = 2
              ELSE /\ Len(outcomes) = 1 /\ Len(requests) = 1
                   /\ outcomes[1].ok => invResult.kind = "value"
                   /\ ~outcomes[1].ok => Propagates(1)

-----------------------------------------------------------------------------
(* Properties about the scope strings *)

\* how many of the string's scope names are offline_access
RECURSIVE Occurrences(_)
Occurrences(s) ==
    IF s = << >> THEN 0
    ELSE (IF Head(s) = OfflineAccess THEN 1 ELSE 0) + Occurrences(Tail(s))

\* C27 as stated: for every configured apiScope, the scope of the credential
\* and the scope sent in the direct grant each contain the scope name
\* offline_access exactly once, and the two strings are the same.
C27_OfflineAccessOnceAndSame ==
    scope # << >> /\ fullScope # << >>
        => /\ Occurrences(scope) = 1
           /\ Occurrences(fullScope) = 1
           /\ scope = fullScope

-----------------------------------------------------------------------------
(* Properties about termination *)

\* the number of times the event is in the call's trace
Count(c, ev) == Cardinality({ i \in 1..Len(trace[c]) : trace[c][i] = ev })

\* C28: provided every awaited collaborator call eventually returns or raises,
\* every token request that has started is eventually over, and at no time has
\* a call issued more than one probe or more than one token-endpoint request.
C28_EveryCallTerminates ==
    /\ [](\A c \in CallIds : Count(c, "probe") <= 1 /\ Count(c, "token_request") <= 1)
    /\ \A c \in CallIds : (pc[c] # "idle") ~> Settled(c)

\* a call went through every await of the function before it returned
C28_Witness ==
    \E c \in CallIds :
        /\ pc[c] = "returned"
        /\ Count(c, "probe") = 1 /\ InTrace(c, "reread_raised")
        /\ Count(c, "token_request") = 1 /\ InTrace(c, "token_response")

-----------------------------------------------------------------------------
(* Properties about where a returned token comes from *)

\* C29: whenever a token request has returned, the value is a non-empty token
\* and it is one of three: the token the re-read after the probe found, when
\* that one differs from the start's; else the access_token of the call's own
\* token-endpoint answer, when that answer carries one; else the token read at
\* the start. Nothing else is ever returned.
C29_ReturnedTokenFromThreePlaces ==
    \A c \in CallIds :
        pc[c] = "returned"
            => /\ result[c].s # ""
               /\ result[c] =
                    IF RereadChanged(c) THEN refreshed[c]
                    ELSE IF InTrace(c, "token_response") /\ ~AnswerFails(tokenData[c])
                    THEN tokenData[c].access_token
                    ELSE oauthData[c].access_token

\* the store was rotated while the probe was in flight, the probe raised, and
\* the call, holding no refresh token, returned the token it had read
C29_Witness ==
    \E c \in CallIds :
        /\ pc[c] = "returned"
        /\ InTrace(c, "probe_raised") /\ InTrace(c, "grant")
        /\ oauthData[c].refresh_token = ""
        /\ atStart[c].writes = 0 /\ hostWrites = 1
        /\ credentials.oauthTokenData.access_token = HostToken(1)
        /\ result[c] = oauthData[c].access_token

-----------------------------------------------------------------------------
(* Properties about tokens that are not JWTs *)

\* the token string is not three dot-separated segments, or its middle
\* segment does not decode to JSON
Malformed(t) == t.parts # 3 \/ t.payload = "invalid"

\* the chat call read a non-empty token that is not a JWT
ReadMalformed(c) ==
    supplier[c] = "chat" /\ HoldsToken(c) /\ Malformed(oauthData[c].access_token)

\* the call's past-buffer test came out as it does for the expiry e
DecidedBy(c, e) ==
    /\ InTrace(c, "evaluate")
    /\ InTrace(c, "refresh_due") <=> nowMs >= (e - EffectiveBuffer) * 1000

\* the call could not evaluate the expiry and returned the token it read
CannotEvaluate(c) ==
    /\ InTrace(c, "cannot_evaluate") /\ ~InTrace(c, "evaluate")
    /\ pc[c] = "returned" /\ result[c] = oauthData[c].access_token

\* C30 as stated: the decoder returns an absent result for a malformed token
\* and raises nothing; the chat request then decides by expires_at when it is
\* present and otherwise reports that it cannot evaluate the expiry.
C30_MalformedFallsBackToExpiresAt ==
    \A c \in CallIds :
        ReadMalformed(c)
            => /\ decodeJWT(oauthData[c].access_token).isNull
               /\ pc[c] # "raised"
               /\ IF oauthData[c].expires_at # Undef
                  THEN DecidedBy(c, oauthData[c].expires_at)
                  ELSE CannotEvaluate(c)

\* C30 amended: the decoder returns an absent result for a malformed token and
\* raises nothing; the chat request then decides by expires_at when it is
\* present, else by the bundle's own exp member when that is present, and only
\* when both are absent reports that it cannot evaluate the expiry.
C30_MalformedFallsBackToBundle ==
    \A c \in CallIds :
        ReadMalformed(c)
            => /\ decodeJWT(oauthData[c].access_token).isNull
               /\ pc[c] # "raised"
               /\ IF oauthData[c].expires_at # Undef
                  THEN DecidedBy(c, oauthData[c].expires_at)
                  ELSE IF oauthData[c].exp # Undef
                  THEN DecidedBy(c, oauthData[c].exp)
                  ELSE CannotEvaluate(c)

\* a token with an undecodable middle segment was refreshed on expires_at
C30_Witness ==
    \E c \in CallIds :
        /\ ReadMalformed(c)
        /\ oauthData[c].access_token.s = "Jbad"
        /\ oauthData[c].expires_at = 10000
        /\ nowMs = 9500000
        /\ InTrace(c, "token_response")
        /\ pc[c] = "returned" /\ result[c] = GrantToken

-----------------------------------------------------------------------------
(* Properties about the buffer window *)

-----------------------------------------------------------------------------
(* Properties about the Token Refresh node *)

\* the execution is over
Executed == xpc \in {"returned", "raised"}

\* the credential read of the execution raised
ReadRaised == Executed /\ "making_test_request" \notin { xlog[i] : i \in 1..Len(xlog) }

\* C32 as stated: every execution issues exactly one probe request, whatever
\* the number of input items, raises nothing, and returns the input items
\* unchanged and in order as its single output.
C32_OneProbeAndPassThrough ==
    /\ xpc # "raised"
    /\ xpc = "returned" => probes = 1 /\ output = <<items>>

\* C32 amended: every execution issues at most one probe request, whatever the
\* number of input items: exactly one when the credential read succeeded and
\* none when it raised; in every case it raises nothing and returns the input
\* items unchanged and in order as its single output.
C32_AtMostOneProbeAndPassThrough ==
    /\ xpc # "raised"
    /\ probes <= 1
    /\ xpc = "returned"
         => /\ probes = (IF ReadRaised THEN 0 ELSE 1)
            /\ Len(output) = 1
            /\ output[1] = items

\* three items passed through after the test request raised
C32_Witness ==
    /\ xpc = "returned"
    /\ items = <<"c", "a", "b">>
    /\ probes = 1
    /\ xlog = <<"making_test_request", "test_request_completed">>
    /\ output = << <<"c", "a", "b">> >>

-----------------------------------------------------------------------------
(* Properties about the tracing handler *)

\* the run's start event was received (before any end or error event of it)
Started(r) == runState[r] \in {"started", "ended", "errored"}

\* the run's end or error event was received after its start
Finished(r) == runState[r] \in {"ended", "errored"}

\* the records of addOutputData that belong to the run
OutputsOf(r) == { i \in 1..Len(outputs) : outputs[i].run = r }

\* C33: whatever the interleaving of the events of distinct runs, a run whose
\* start came first keeps in the run map the index addInputData returned at
\* its start, whatever events of other runs follow, and its output or error is
\* recorded once, at exactly that index; distinct runs hold distinct indexes.
C33_OutputAtTheRunsOwnIndex ==
    \A r \in RunIds :
        Started(r)
            => /\ runsMap[r] # NoRun
               /\ runsMap[r].index = addedAt[r]
               /\ \A q \in RunIds \ {r} : Started(q) => runsMap[q].index # runsMap[r].index
               /\ \A i \in OutputsOf(r) : outputs[i].index = addedAt[r]
               /\ Cardinality(OutputsOf(r)) = (IF Finished(r) THEN 1 ELSE 0)

\* run 2 started first and finished last, around the whole of run 1
C33_Witness ==
    /\ runState[1] = "errored" /\ runState[2] = "ended"
    /\ addedAt[2] < addedAt[1]
    /\ Len(outputs) = 2
    /\ outputs[1].run = 1 /\ outputs[1].index = addedAt[1]
    /\ outputs[2].run = 2 /\ outputs[2].index = addedAt[2]

\* the first two characters of the header's key are not 'x-'
NotAnXHeader(key) == key.first # "x-"

\* C34: whatever error object handleLLMError received, what it passed to
\* addOutputData and to the AI event log holds the headers that were received
\* with a key starting with 'x-' and no other header: no authorization or
\* api-key header is ever recorded.
C34_OnlyXHeadersRecorded ==
    /\ Len(aiEvents) = Len(outputs)
    /\ \A i \in 1..Len(outputs) :
        /\ \A key \in outputs[i].error.headers \cup aiEvents[i].error.headers :
               ~NotAnXHeader(key) /\ key \notin {Authorization, ApiKey}
        /\ outputs[i].kind = "error"
             => LET n == Cardinality({ j \in 1..i : outputs[j].kind = "error" }) IN
                /\ outputs[i].error.headers
                      = { key \in received[n].headers : ~NotAnXHeader(key) }
                /\ aiEvents[i].error = outputs[i].error

\* errors carrying an authorization and an api-key header were recorded
C34_Witness ==
    /\ Len(received) = 2
    /\ received[1].headers = {ApiKey, UpperXTrace, Authorization}
    /\ received[2].headers = {Authorization, XRequestId}
    /\ received[1].isNodeError /\ ~received[2].isNodeError
    /\ Len(outputs) = 2
    /\ outputs[1].error.headers = {}
    /\ outputs[2].error.headers = {XRequestId} /\ outputs[2].wrapped

====
